---- MODULE Spec2Model ----
(***************************************************************************)
(* Orange-juice trading dashboard: the market signal decision engine       *)
(* (calculateMarketSignalBrowser) and the frost exposure tracker of the    *)
(* PredictorDashboard component, with its localStorage persistence.        *)
(*                                                                         *)
(* Number representation.  Win rates and win probabilities are integers in *)
(* hundredths (0.76 is 76), multipliers are integers in tenths (1.4 is     *)
(* 14), so a product base x multiplier x La Nina factor is an integer in   *)
(* units of 1/10000.  The Brazil rainfall index (SPI-3) is an integer in   *)
(* hundredths (-1.5 is -150).  Temperatures are whole degrees Fahrenheit,  *)
(* inventory is whole millions of gallons.  Date.now() is an integer       *)
(* number of milliseconds.  A JavaScript string built by a template is a   *)
(* tuple <<template, value, ...>>, and undefined is the empty tuple.       *)
(***************************************************************************)
EXTENDS Integers, Sequences, FiniteSets, TLC

VARIABLES
    args,               \* arguments of the pure function call under test
    result,             \* what the latest call with args returned
    prevResult,         \* what the call before it returned
    calendarMonth,      \* new Date().getMonth() + 1
    now,                \* Date.now(), milliseconds
    phase,              \* "render" (state initialised, effects pending) or "running"
    currentTemp,
    hoursBelow28,
    currentInventory,
    marketContext,
    rsiValue,
    frostData,          \* FrostTrackerData held in React state
    damageAlertShownRef,
    showDamageAlert,
    frostStore,         \* localStorage["oj_frost_tracker"]
    marketStore,        \* localStorage["oj_market_data"]
    rsiStore,           \* localStorage["oj_rsi_value"]
    lastSyncTimestamp,
    rsiSyncError,
    syncInFlight,       \* the values a running handleSyncLiveData closed over
    episodeAlerts,      \* alerts raised since the tracker last entered Tracking
    dataIsStale,        \* the memoised stale flag handed to the sync button
    signalRuns,         \* inputs of the signal computations the latest step made
    fetched,            \* what the two fetches of the running sync have answered
    blueprintData,      \* the TradeBlueprintData handed to the blueprint modal
    priceSub            \* one subscribeToPriceUpdates subscription

evalVars == <<args, result, prevResult>>

appVars == <<now, phase, currentTemp, hoursBelow28, currentInventory, marketContext,
             rsiValue, frostData, damageAlertShownRef, showDamageAlert, frostStore,
             marketStore, rsiStore, lastSyncTimestamp, rsiSyncError, syncInFlight,
             episodeAlerts, dataIsStale, signalRuns>>

\* State outside the dashboard's parameters: fetches under way, the blueprint
\* modal, the price subscription.
sideVars == <<fetched, blueprintData, priceSub>>

vars == <<args, result, prevResult, calendarMonth, now, phase, currentTemp,
          hoursBelow28, currentInventory, marketContext, rsiValue, frostData,
          damageAlertShownRef, showDamageAlert, frostStore, marketStore, rsiStore,
          lastSyncTimestamp, rsiSyncError, syncInFlight, episodeAlerts,
          dataIsStale, signalRuns, fetched, blueprintData, priceSub>>

Undefined == <<>>

(***************************************************************************)
(* MARKET_RULES and the other constants of the decision engine             *)
(***************************************************************************)
critical_temp_f == 28
min_duration_hours == 4
under_35m == 20
mult_35_45m == 15
over_55m == 7
la_nina_double_hit == 79
volatility_pre_frost == 79
real_frost == 76
LA_NINA_MULTIPLIER == 14
HURRICANE_FALSE_ALARM_WIN_RATE == 71
BRAZIL_DROUGHT_WIN_RATE == 69
BRAZIL_DROUGHT_THRESHOLD == -150
BRAZIL_DROUGHT_MONTHS == {8, 9, 10}
MAX_WIN_PROBABILITY == 95
RSI_OVERBOUGHT_THRESHOLD == 70
TEMP_RECOVERY_THRESHOLD == 35
RSI_TAKE_PROFIT_WIN_RATE == 72
NO_FROST_BASELINE == 50
NEUTRAL_MULTIPLIER == 10
RSI_OVERSOLD_THRESHOLD == 30
DEFAULT_RSI == 50

\* Number.prototype.toFixed(1) on a value in hundredths: the nearest tenth
\* (ties away from zero), as a number of tenths.
ToFixed1(x) == IF x >= 0 THEN (x + 5) \div 10 ELSE -((5 - x) \div 10)

\* Math.round(w * 100) / 100 on a probability in units of 1/10000: hundredths.
Round2(w) == (w + 50) \div 100

\* Math.min
Min(a, b) == IF a <= b THEN a ELSE b

\* The context calculateMarketSignalBrowser uses when marketContext is omitted.
DefaultContext(month) ==
    [isLaNina |-> FALSE, isHurricaneActive |-> FALSE,
     hurricaneCenterFarFromPolk |-> FALSE, brazilRainfallIndex |-> 0,
     currentMonth |-> month]

(***************************************************************************)
(* calculateMarketSignalBrowser                                            *)
(***************************************************************************)
IsBrazilDroughtSeason(context) == context.currentMonth \in BRAZIL_DROUGHT_MONTHS

IsBrazilDrought(context) ==
    IsBrazilDroughtSeason(context)
    /\ context.brazilRainfallIndex < BRAZIL_DROUGHT_THRESHOLD

IsRsiOverbought(rsi) == rsi > RSI_OVERBOUGHT_THRESHOLD

IsTempRecovered(temp) == temp > TEMP_RECOVERY_THRESHOLD

IsHurricaneFalseAlarm(context) ==
    context.isHurricaneActive /\ context.hurricaneCenterFarFromPolk

IsBelowCriticalTemp(temp) == temp < critical_temp_f

HasSufficientDuration(hours) == hours >= min_duration_hours

BaseWinProbability(temp, hours) ==
    IF IsBelowCriticalTemp(temp) /\ HasSufficientDuration(hours) THEN real_frost
    ELSE IF IsBelowCriticalTemp(temp) THEN volatility_pre_frost
    ELSE NO_FROST_BASELINE

FrostCondition(temp, hours) ==
    IF IsBelowCriticalTemp(temp) /\ HasSufficientDuration(hours)
    THEN <<"Real frost detected: _F for _+ hours", temp, hours>>
    ELSE IF IsBelowCriticalTemp(temp)
    THEN <<"Pre-frost volatility: _F (need _h duration)", temp, min_duration_hours>>
    ELSE <<"No frost signal: _F above _F threshold", temp, critical_temp_f>>

\* Variant: the under-35M band takes 35 itself.
InventoryMultiplier_Inclusive35(inventory) ==
    IF inventory <= 35 THEN under_35m
    ELSE IF inventory <= 45 THEN mult_35_45m
    ELSE IF inventory > 55 THEN over_55m
    ELSE NEUTRAL_MULTIPLIER

InventoryMultiplier(inventory) ==
    IF inventory < 35 THEN under_35m
    ELSE IF inventory <= 45 THEN mult_35_45m
    ELSE IF inventory > 55 THEN over_55m
    ELSE NEUTRAL_MULTIPLIER

InventoryCondition(inventory) ==
    IF inventory < 35 THEN <<"Inventory < 35M triggers _x risk multiplier", under_35m>>
    ELSE IF inventory <= 45 THEN <<"Inventory 35-45M triggers _x multiplier", mult_35_45m>>
    ELSE IF inventory > 55
    THEN <<"Inventory > 55M triggers _x (reduced) multiplier", over_55m>>
    ELSE <<"Inventory 45-55M: neutral position (1.0x multiplier)", NEUTRAL_MULTIPLIER>>

\* Variant: the Math.min cap is missing.
CappedWinProbability_NoCap(base, mult, isLaNina) ==
    base * mult * (IF isLaNina THEN LA_NINA_MULTIPLIER ELSE 10)

\* baseWinProbability * inventoryMultiplier, times LA_NINA_MULTIPLIER under La Nina,
\* capped by Math.min at MAX_WIN_PROBABILITY; in units of 1/10000.
CappedWinProbability(base, mult, isLaNina) ==
    Min(base * mult * (IF isLaNina THEN LA_NINA_MULTIPLIER ELSE 10),
        MAX_WIN_PROBABILITY * 100)

\* Variant: the frost rule is tested before the inventory rules.
RecommendedAction_FrostFirst(temp, hours, inventory) ==
    IF IsBelowCriticalTemp(temp) /\ HasSufficientDuration(hours) THEN "Hold Position"
    ELSE IF inventory < 35 THEN "Double Position"
    ELSE IF inventory <= 45 /\ IsBelowCriticalTemp(temp) THEN "Increase Position"
    ELSE IF inventory > 55 THEN "Reduce Position"
    ELSE "Monitor"

RecommendedAction(temp, hours, inventory) ==
    IF inventory < 35 THEN "Double Position"
    ELSE IF inventory <= 45 /\ IsBelowCriticalTemp(temp) THEN "Increase Position"
    ELSE IF inventory > 55 THEN "Reduce Position"
    ELSE IF IsBelowCriticalTemp(temp) /\ HasSufficientDuration(hours) THEN "Hold Position"
    ELSE "Monitor"

LaNinaEffect(context) ==
    IF context.isLaNina
    THEN <<"La Nina active (ONI < -0.5): _x multiplier applied. Double Hit win rate: _%",
           LA_NINA_MULTIPLIER, la_nina_double_hit>>
    ELSE Undefined

BaselineHurricaneEffect(context) ==
    IF context.isHurricaneActive /\ ~context.hurricaneCenterFarFromPolk
    THEN <<"Hurricane warning active - monitoring for potential impact on Polk County">>
    ELSE Undefined

BaselineBrazilDroughtEffect(context) ==
    IF IsBrazilDroughtSeason(context)
       /\ context.brazilRainfallIndex >= BRAZIL_DROUGHT_THRESHOLD
    THEN <<"Brazil SPI-3 at _ (above _ threshold) - no drought signal",
           ToFixed1(context.brazilRainfallIndex), BRAZIL_DROUGHT_THRESHOLD>>
    ELSE IF ~IsBrazilDroughtSeason(context)
            /\ context.brazilRainfallIndex < BRAZIL_DROUGHT_THRESHOLD
    THEN <<"Brazil SPI-3 at _ - drought conditions noted but outside Aug-Oct window",
           ToFixed1(context.brazilRainfallIndex)>>
    ELSE Undefined

BaselineRsiEffect(rsi) ==
    IF rsi > RSI_OVERBOUGHT_THRESHOLD
    THEN <<"RSI at _ (overbought) - watch for temperature recovery above _F", rsi,
           TEMP_RECOVERY_THRESHOLD>>
    ELSE IF rsi < RSI_OVERSOLD_THRESHOLD
    THEN <<"RSI at _ (oversold) - potential buying opportunity", rsi>>
    ELSE Undefined

BrazilDroughtResult(context) ==
    [winProbability |-> BRAZIL_DROUGHT_WIN_RATE,
     recommendedAction |-> "STRONG LONG (Brazil Drought)",
     isHurricaneFalseAlarm |-> FALSE,
     isLaNinaActive |-> context.isLaNina,
     isBrazilDrought |-> TRUE,
     isRsiOverbought |-> FALSE,
     insight |->
        [frostCondition |-> <<"Brazil drought override active - frost conditions bypassed">>,
         inventoryCondition |->
            <<"Brazil drought override active - inventory conditions bypassed">>,
         multiplierApplied |-> 10,
         baseWinRate |-> BRAZIL_DROUGHT_WIN_RATE,
         laNinaEffect |-> Undefined,
         hurricaneEffect |-> Undefined,
         brazilDroughtEffect |->
            <<"Brazil SPI-3 at _ (< _) during peak season. Historical win rate: _%",
              ToFixed1(context.brazilRainfallIndex), BRAZIL_DROUGHT_THRESHOLD,
              BRAZIL_DROUGHT_WIN_RATE>>,
         rsiEffect |-> Undefined]]

\* Variant: the La Nina amplifier is applied to the take-profit rate.
TakeProfitResult_Amplified(temp, context, rsi) ==
    [winProbability |->
        Round2(CappedWinProbability(RSI_TAKE_PROFIT_WIN_RATE, 10, context.isLaNina)),
     recommendedAction |-> "TAKE PROFIT / SELL",
     isHurricaneFalseAlarm |-> FALSE,
     isLaNinaActive |-> context.isLaNina,
     isBrazilDrought |-> FALSE,
     isRsiOverbought |-> TRUE,
     insight |->
        [frostCondition |->
            <<"Temperature recovered to _F (above _F threshold)", temp,
              TEMP_RECOVERY_THRESHOLD>>,
         inventoryCondition |->
            <<"RSI signal override active - inventory conditions secondary">>,
         multiplierApplied |-> 10,
         baseWinRate |-> RSI_TAKE_PROFIT_WIN_RATE,
         laNinaEffect |-> Undefined,
         hurricaneEffect |-> Undefined,
         brazilDroughtEffect |-> Undefined,
         rsiEffect |->
            <<"Market is overbought (RSI _ > _) and temperature has recovered.", rsi,
              RSI_OVERBOUGHT_THRESHOLD>>]]

TakeProfitResult(temp, context, rsi) ==
    [winProbability |-> RSI_TAKE_PROFIT_WIN_RATE,
     recommendedAction |-> "TAKE PROFIT / SELL",
     isHurricaneFalseAlarm |-> FALSE,
     isLaNinaActive |-> context.isLaNina,
     isBrazilDrought |-> FALSE,
     isRsiOverbought |-> TRUE,
     insight |->
        [frostCondition |->
            <<"Temperature recovered to _F (above _F threshold)", temp,
              TEMP_RECOVERY_THRESHOLD>>,
         inventoryCondition |->
            <<"RSI signal override active - inventory conditions secondary">>,
         multiplierApplied |-> 10,
         baseWinRate |-> RSI_TAKE_PROFIT_WIN_RATE,
         laNinaEffect |-> Undefined,
         hurricaneEffect |-> Undefined,
         brazilDroughtEffect |-> Undefined,
         rsiEffect |->
            <<"Market is overbought (RSI _ > _) and temperature has recovered.", rsi,
              RSI_OVERBOUGHT_THRESHOLD>>]]

HurricaneFalseAlarmResult(context) ==
    [winProbability |-> HURRICANE_FALSE_ALARM_WIN_RATE,
     recommendedAction |-> "SELL/SHORT (False Alarm)",
     isHurricaneFalseAlarm |-> TRUE,
     isLaNinaActive |-> context.isLaNina,
     isBrazilDrought |-> FALSE,
     isRsiOverbought |-> FALSE,
     insight |->
        [frostCondition |-> <<"Hurricane override active - frost conditions bypassed">>,
         inventoryCondition |->
            <<"Hurricane override active - inventory conditions bypassed">>,
         multiplierApplied |-> 10,
         baseWinRate |-> HURRICANE_FALSE_ALARM_WIN_RATE,
         laNinaEffect |-> Undefined,
         hurricaneEffect |->
            <<"Hurricane center >100mi from Polk County = False Alarm. Win rate: _%",
              HURRICANE_FALSE_ALARM_WIN_RATE>>,
         brazilDroughtEffect |-> Undefined,
         rsiEffect |-> Undefined]]

\* Variant: the insight reports the 1.0 multiplier of the override branches.
BaselineResult_NeutralMultiplier(temp, hours, inventory, context, rsi) ==
    [winProbability |->
        Round2(CappedWinProbability(BaseWinProbability(temp, hours),
                                    InventoryMultiplier(inventory), context.isLaNina)),
     recommendedAction |-> RecommendedAction(temp, hours, inventory),
     isHurricaneFalseAlarm |-> FALSE,
     isLaNinaActive |-> context.isLaNina,
     isBrazilDrought |-> FALSE,
     isRsiOverbought |-> IsRsiOverbought(rsi),
     insight |->
        [frostCondition |-> FrostCondition(temp, hours),
         inventoryCondition |-> InventoryCondition(inventory),
         multiplierApplied |-> 10,
         baseWinRate |-> BaseWinProbability(temp, hours),
         laNinaEffect |-> LaNinaEffect(context),
         hurricaneEffect |-> BaselineHurricaneEffect(context),
         brazilDroughtEffect |-> BaselineBrazilDroughtEffect(context),
         rsiEffect |-> BaselineRsiEffect(rsi)]]

BaselineResult(temp, hours, inventory, context, rsi) ==
    [winProbability |->
        Round2(CappedWinProbability(BaseWinProbability(temp, hours),
                                    InventoryMultiplier(inventory), context.isLaNina)),
     recommendedAction |-> RecommendedAction(temp, hours, inventory),
     isHurricaneFalseAlarm |-> FALSE,
     isLaNinaActive |-> context.isLaNina,
     isBrazilDrought |-> FALSE,
     isRsiOverbought |-> IsRsiOverbought(rsi),
     insight |->
        [frostCondition |-> FrostCondition(temp, hours),
         inventoryCondition |-> InventoryCondition(inventory),
         multiplierApplied |-> InventoryMultiplier(inventory),
         baseWinRate |-> BaseWinProbability(temp, hours),
         laNinaEffect |-> LaNinaEffect(context),
         hurricaneEffect |-> BaselineHurricaneEffect(context),
         brazilDroughtEffect |-> BaselineBrazilDroughtEffect(context),
         rsiEffect |-> BaselineRsiEffect(rsi)]]

\* Variant: the RSI take-profit check precedes the Brazil drought check.
SignalFor_RsiFirst(temp, hours, inventory, context, rsi) ==
    IF IsRsiOverbought(rsi) /\ IsTempRecovered(temp)
    THEN TakeProfitResult(temp, context, rsi)
    ELSE IF IsBrazilDrought(context) THEN BrazilDroughtResult(context)
    ELSE IF IsHurricaneFalseAlarm(context) THEN HurricaneFalseAlarmResult(context)
    ELSE BaselineResult(temp, hours, inventory, context, rsi)

\* Variant: the hurricane false-alarm check precedes the RSI take-profit check.
SignalFor_HurricaneFirst(temp, hours, inventory, context, rsi) ==
    IF IsBrazilDrought(context) THEN BrazilDroughtResult(context)
    ELSE IF IsHurricaneFalseAlarm(context) THEN HurricaneFalseAlarmResult(context)
    ELSE IF IsRsiOverbought(rsi) /\ IsTempRecovered(temp)
    THEN TakeProfitResult(temp, context, rsi)
    ELSE BaselineResult(temp, hours, inventory, context, rsi)

\* The priority chain, on the context and RSI the call resolved.
SignalFor(temp, hours, inventory, context, rsi) ==
    IF IsBrazilDrought(context) THEN BrazilDroughtResult(context)
    ELSE IF IsRsiOverbought(rsi) /\ IsTempRecovered(temp)
    THEN TakeProfitResult(temp, context, rsi)
    ELSE IF IsHurricaneFalseAlarm(context) THEN HurricaneFalseAlarmResult(context)
    ELSE BaselineResult(temp, hours, inventory, context, rsi)

\* STRATEGY_WIN_RATES, exported for the strategy summary table.
STRATEGY_WIN_RATES ==
    [laNina |-> la_nina_double_hit,
     volatility |-> volatility_pre_frost,
     realFrost |-> real_frost,
     hurricaneFalseAlarm |-> HURRICANE_FALSE_ALARM_WIN_RATE,
     brazilDrought |-> BRAZIL_DROUGHT_WIN_RATE]

\* The win rates of the README's "Trading Strategies" table, in percent.
ReadmeWinRates ==
    [brazilDrought |-> 82,
     realFrost |-> 76,
     laNina |-> 68,
     volatility |-> 62,
     hurricaneFalseAlarm |-> 58]

\* An optional argument is a set: empty when the caller omits it, a singleton
\* otherwise.  month is what new Date().getMonth() + 1 reads during the call.
ResolveContext(optContext, month) ==
    IF optContext = {} THEN DefaultContext(month) ELSE CHOOSE c \in optContext : TRUE

ResolveRsi(optRsi) == IF optRsi = {} THEN DEFAULT_RSI ELSE CHOOSE r \in optRsi : TRUE

calculateMarketSignalBrowser(temp, hours, inventory, optContext, optRsi, month) ==
    SignalFor(temp, hours, inventory, ResolveContext(optContext, month),
              ResolveRsi(optRsi))

(***************************************************************************)
(* calculateRSI (marketDataStream.ts)                                      *)
(* Averages are exact fractions [num, den]; avgGain and avgLoss always     *)
(* share their denominator.                                                *)
(***************************************************************************)
RSI_PERIOD == 14

RECURSIVE Sum(_)
Sum(xs) == IF xs = <<>> THEN 0 ELSE Head(xs) + Sum(Tail(xs))

\* ((avg * (period - 1)) + xs[i]) / period for i from period + 1 on.
RECURSIVE WilderSmoothing(_, _, _, _)
WilderSmoothing(avg, xs, i, period) ==
    IF i > Len(xs) THEN avg
    ELSE WilderSmoothing([num |-> avg.num * (period - 1) + xs[i] * avg.den,
                          den |-> avg.den * period], xs, i + 1, period)

\* Math.round of the non-negative fraction num / den.
MathRound(num, den) == (2 * num + den) \div (2 * den)

\* The last steps written as 100 / (1 + rs) instead of 100 - 100 / (1 + rs).
calculateRSI_Inverted(closingPrices, period) ==
    IF Len(closingPrices) < period + 1
    THEN [threw |-> TRUE, value |-> 0]
    ELSE LET changes == [i \in 1..(Len(closingPrices) - 1) |->
                            closingPrices[i + 1] - closingPrices[i]]
             gains == [i \in DOMAIN changes |->
                          IF changes[i] > 0 THEN changes[i] ELSE 0]
             losses == [i \in DOMAIN changes |->
                           IF changes[i] < 0 THEN 0 - changes[i] ELSE 0]
             avgGain == WilderSmoothing(
                            [num |-> Sum(SubSeq(gains, 1, period)), den |-> period],
                            gains, period + 1, period)
             avgLoss == WilderSmoothing(
                            [num |-> Sum(SubSeq(losses, 1, period)), den |-> period],
                            losses, period + 1, period)
         IN  IF avgLoss.num = 0
             THEN [threw |-> FALSE, value |-> 100]
             ELSE [threw |-> FALSE,
                   value |-> MathRound(100 * avgLoss.num, avgLoss.num + avgGain.num)]

\* calculateRSI: rs = avgGain / avgLoss is avgGain.num / avgLoss.num, so
\* 100 / (1 + rs) is 100 * avgLoss.num / (avgLoss.num + avgGain.num).
calculateRSI(closingPrices, period) ==
    IF Len(closingPrices) < period + 1
    THEN [threw |-> TRUE, value |-> 0]
    ELSE LET changes == [i \in 1..(Len(closingPrices) - 1) |->
                            closingPrices[i + 1] - closingPrices[i]]
             gains == [i \in DOMAIN changes |->
                          IF changes[i] > 0 THEN changes[i] ELSE 0]
             losses == [i \in DOMAIN changes |->
                           IF changes[i] < 0 THEN 0 - changes[i] ELSE 0]
             avgGain == WilderSmoothing(
                            [num |-> Sum(SubSeq(gains, 1, period)), den |-> period],
                            gains, period + 1, period)
             avgLoss == WilderSmoothing(
                            [num |-> Sum(SubSeq(losses, 1, period)), den |-> period],
                            losses, period + 1, period)
             rsDen == avgLoss.num + avgGain.num
         IN  IF avgLoss.num = 0
             THEN [threw |-> FALSE, value |-> 100]
             ELSE [threw |-> FALSE,
                   value |-> MathRound(100 * rsDen - 100 * avgLoss.num, rsDen)]

(***************************************************************************)
(* Frost exposure tracker and persistence helpers of PredictorDashboard    *)
(***************************************************************************)
CRITICAL_FROST_HOURS == 4
CRITICAL_TEMP_THRESHOLD == 28
RESET_TEMP_THRESHOLD == 32
DEFAULT_TEMP == 32
DEFAULT_INVENTORY == 45
FALLBACK_TEMP == 45
FIXED_INVENTORY_LEVEL == 27
AVG_PROFIT == 149                   \* 14.9 percent, in tenths
MAX_POSITION_MULTIPLIER == 280      \* 2.8x, in hundredths
SecondsPerMinute == 60
MAX_SLIDER_HOURS == 12

SecondsPerHour == 3600
MsPerSecond == 1000

\* Variant: the elapsed time is rounded up to whole seconds.
loadFrostData_RoundUp(store, tnow) ==
    IF store = {}
    THEN [accumulatedSeconds |-> 0, lastUpdateTime |-> tnow, isTracking |-> FALSE]
    ELSE LET data == CHOOSE d \in store : TRUE
         IN  IF data.isTracking /\ data.lastUpdateTime # 0
             THEN [data EXCEPT
                     !.accumulatedSeconds =
                         @ + ((tnow - data.lastUpdateTime + MsPerSecond - 1)
                                  \div MsPerSecond),
                     !.lastUpdateTime = tnow]
             ELSE data

\* loadFrostData: store is localStorage's item (a set: empty when absent),
\* tnow is Date.now().
loadFrostData(store, tnow) ==
    IF store = {}
    THEN [accumulatedSeconds |-> 0, lastUpdateTime |-> tnow, isTracking |-> FALSE]
    ELSE LET data == CHOOSE d \in store : TRUE
         IN  IF data.isTracking /\ data.lastUpdateTime # 0
             THEN [data EXCEPT
                     !.accumulatedSeconds =
                         @ + ((tnow - data.lastUpdateTime) \div MsPerSecond),
                     !.lastUpdateTime = tnow]
             ELSE data

\* loadRsiValue: the stored integer when it is within 0..100, else 50.
loadRsiValue(store) ==
    IF store = {} THEN DEFAULT_RSI
    ELSE LET value == CHOOSE v \in store : TRUE
         IN  IF value >= 0 /\ value <= 100 THEN value ELSE DEFAULT_RSI

\* The effect with a reset that keeps the counted seconds.
FrostEffectRun_ResetKeepsSeconds(f, temp, tnow) ==
    IF temp <= CRITICAL_TEMP_THRESHOLD /\ ~f.frostData.isTracking
    THEN LET newData == [f.frostData EXCEPT !.isTracking = TRUE,
                                            !.lastUpdateTime = tnow]
         IN  [f EXCEPT !.frostData = newData, !.frostStore = {newData},
                       !.episodeAlerts = 0]
    ELSE IF temp > RESET_TEMP_THRESHOLD /\ f.frostData.isTracking
    THEN LET newData == [f.frostData EXCEPT !.isTracking = FALSE,
                                            !.lastUpdateTime = tnow]
         IN  [f EXCEPT !.frostData = newData, !.frostStore = {newData},
                       !.damageAlertShownRef = FALSE]
    ELSE f

\* The effect without the hysteresis band: reset as soon as the temperature is
\* above the critical threshold.
FrostEffectRun_NoHysteresis(f, temp, tnow) ==
    IF temp <= CRITICAL_TEMP_THRESHOLD /\ ~f.frostData.isTracking
    THEN LET newData == [f.frostData EXCEPT !.isTracking = TRUE,
                                            !.lastUpdateTime = tnow]
         IN  [f EXCEPT !.frostData = newData, !.frostStore = {newData},
                       !.episodeAlerts = 0]
    ELSE IF temp > CRITICAL_TEMP_THRESHOLD /\ f.frostData.isTracking
    THEN LET newData == [accumulatedSeconds |-> 0, isTracking |-> FALSE,
                         lastUpdateTime |-> tnow]
         IN  [f EXCEPT !.frostData = newData, !.frostStore = {newData},
                       !.damageAlertShownRef = FALSE]
    ELSE f

\* The tracker's mutable part as one record f: React state, the storage item,
\* the alert-shown ref and the count of alerts of the running episode.
\* One run of the frost tracking effect body (start or reset).
FrostEffectRun(f, temp, tnow) ==
    IF temp <= CRITICAL_TEMP_THRESHOLD /\ ~f.frostData.isTracking
    THEN LET newData == [f.frostData EXCEPT !.isTracking = TRUE,
                                            !.lastUpdateTime = tnow]
         IN  [f EXCEPT !.frostData = newData, !.frostStore = {newData},
                       !.episodeAlerts = 0]
    ELSE IF temp > RESET_TEMP_THRESHOLD /\ f.frostData.isTracking
    THEN LET newData == [accumulatedSeconds |-> 0, isTracking |-> FALSE,
                         lastUpdateTime |-> tnow]
         IN  [f EXCEPT !.frostData = newData, !.frostStore = {newData},
                       !.damageAlertShownRef = FALSE]
    ELSE f

\* The effect runs after a render whose currentTemp or frostData.isTracking
\* changed, and again when its own setFrostData changed isTracking.
FrostEffect(f, temp, tnow) == FrostEffectRun(FrostEffectRun(f, temp, tnow), temp, tnow)

\* The effect that follows the tracker with the hoursBelow28 parameter.
HoursEffect(fd, hours) ==
    IF fd.isTracking
    THEN LET h == fd.accumulatedSeconds \div SecondsPerHour
         IN  IF h # hours /\ h <= MAX_SLIDER_HOURS THEN h ELSE hours
    ELSE hours

\* The setInterval of the frost effect exists exactly in this case.
IntervalActive == frostData.isTracking /\ currentTemp <= CRITICAL_TEMP_THRESHOLD

Tracker == [frostData |-> frostData, frostStore |-> frostStore,
            damageAlertShownRef |-> damageAlertShownRef,
            episodeAlerts |-> episodeAlerts]

\* Writes a tracker record f and the hoursBelow28 that follows from it.
SetTracker(f, hours) ==
    /\ frostData' = f.frostData
    /\ frostStore' = f.frostStore
    /\ damageAlertShownRef' = f.damageAlertShownRef
    /\ episodeAlerts' = f.episodeAlerts
    /\ hoursBelow28' = HoursEffect(f.frostData, hours)

\* STALE_DATA_THRESHOLD_MS and isDataStale, with Date.now() as tnow.
STALE_DATA_THRESHOLD_MS == 30 * 60 * MsPerSecond

isDataStale(timestamp, tnow) == tnow - timestamp > STALE_DATA_THRESHOLD_MS

\* The body of the dataIsStale useMemo; React runs it at the first render and
\* at a render in which lastSyncTimestamp changed.
DataIsStaleMemo(timestamp, tnow) == timestamp > 0 /\ isDataStale(timestamp, tnow)

\* The arguments of the signal useMemo, which are also its dependencies.
SignalInput(temp, hours, inventory, context, rsi) ==
    [currentTemp |-> temp, hoursBelow28 |-> hours, currentInventory |-> inventory,
     marketContext |-> context, rsiValue |-> rsi]

CurrentInput ==
    SignalInput(currentTemp, hoursBelow28, currentInventory, marketContext, rsiValue)

\* The signal the dashboard shows for the parameters in input.
signal(input, month) ==
    calculateMarketSignalBrowser(input.currentTemp, input.hoursBelow28,
                                 input.currentInventory, {input.marketContext},
                                 {input.rsiValue}, month)

\* useMemo computes the signal at each render whose dependencies differ from
\* those of the render before: renders is the sequence of the parameters at
\* successive renders, the first being the render before the step.
SignalRuns(renders) ==
    {renders[i] : i \in {j \in 2..Len(renders) : renders[j] # renders[j - 1]}}

\* The state updates of handleSyncLiveData after its await treated one render
\* per setState call.
SyncStateUpdates_RenderPerSetState(before, temp, rsi) ==
    <<[before EXCEPT !.currentTemp = temp],
      [before EXCEPT !.currentTemp = temp, !.rsiValue = rsi]>>

\* The renders that follow the state updates of handleSyncLiveData after its
\* await: React 18+ roots batch setCurrentTemp, setRsiValue, setRsiSyncError
\* and setLastSyncTimestamp into one render.
SyncStateUpdates(before, temp, rsi) ==
    <<[before EXCEPT !.currentTemp = temp, !.rsiValue = rsi]>>

\* The answers of fetchLiveMarketData and fetchLiveMarketRSI that Promise.all
\* holds: per fetch a sequence, empty while the request is pending, else the
\* one answer (itself a set, empty when the request failed).
NothingFetched == [weather |-> <<>>, rsi |-> <<>>]

\* No subscription made yet: isActive and the interval do not exist, no fetch
\* is in flight, the callback was not called.
NotSubscribed ==
    [subscribed |-> FALSE, isActive |-> FALSE, intervalSet |-> FALSE,
     inFlight |-> 0, ticks |-> 0, calls |-> 0, lateCalls |-> 0,
     lastArg |-> "none"]

\* formatFrostDurationShort: the numbers of `${hours}h ${minutes}m`.
formatFrostDurationShort(totalSeconds) ==
    <<"_h _m", totalSeconds \div SecondsPerHour,
      (totalSeconds % SecondsPerHour) \div SecondsPerMinute>>

\* The currentBlueprintData useMemo, whose dependencies are all the state it
\* reads; positionMultiplier in hundredths (2.0, 1.5, 0.7, else 1.0, times 1.4
\* under La Nina, capped).
currentBlueprintData ==
    LET byInventory == IF currentInventory < 35 THEN 200
                       ELSE IF currentInventory <= 45 THEN 150
                       ELSE IF currentInventory > 55 THEN 70
                       ELSE 100
        positionMultiplier == IF marketContext.isLaNina
                              THEN (byInventory * 14) \div 10 ELSE byInventory
    IN  [primarySignal |-> "LONG OJ - Real Frost Event",
         currentTemp |-> currentTemp,
         frostDuration |-> formatFrostDurationShort(frostData.accumulatedSeconds),
         inventoryLevel |-> currentInventory,
         isLaNinaActive |-> marketContext.isLaNina,
         winRate |-> STRATEGY_WIN_RATES.realFrost,
         avgProfit |-> AVG_PROFIT,
         positionMultiplier |-> Min(positionMultiplier, MAX_POSITION_MULTIPLIER)]

(***************************************************************************)
(* Bounds and input sets                                                   *)
(***************************************************************************)
StartTime == 1000           \* Date.now() at the first launch
ShortBudget == 4            \* seconds of clock spent in short steps
StartMonth == 7             \* calendar month at the first launch
MaxRollovers == 1           \* month changes observed

\* An absence long enough that one more tick reaches the critical exposure.
LongDelay == (CRITICAL_FROST_HOURS * SecondsPerHour - 1) * MsPerSecond
MaxLongAbsences == 1        \* long absences observed

\* A wait after which synced data is on the edge of being stale.
StaleDelay == STALE_DATA_THRESHOLD_MS
MaxStaleWaits == 1          \* such waits observed

\* The clock may advance by d: at most MaxLongAbsences long absences, at most
\* MaxStaleWaits waits of StaleDelay, and ShortBudget seconds in short steps.
CanAdvance(t, d) ==
    IF d = LongDelay
    THEN (t - StartTime) \div LongDelay < MaxLongAbsences
    ELSE IF d = StaleDelay
    THEN ((t - StartTime) % LongDelay) \div StaleDelay < MaxStaleWaits
    ELSE (((t - StartTime) % LongDelay) % StaleDelay) + d
             <= ShortBudget * MsPerSecond

\* A timer callback fires on time, or late when the tab is throttled.
TickDelays == {MsPerSecond, 2 * MsPerSecond}
IdleDelays == {MsPerSecond}
OfflineDelays == {MsPerSecond \div 2, LongDelay}
FetchedTemps == {27, 28, 30, 33}
FetchedRsi == {75}

EvalTemps == {20, 28, 35, 36}
EvalHours == {3, 4, 5}
EvalInventories == {30, 35, 45, 50, 55, 56}
EvalRsi == {29, 50, 70, 75}
EvalBrazil == {-152, -150, 0}
EvalMonths == {7, 8, 10}

EvalContexts ==
    [isLaNina : BOOLEAN, isHurricaneActive : BOOLEAN,
     hurricaneCenterFarFromPolk : BOOLEAN, brazilRainfallIndex : EvalBrazil,
     currentMonth : EvalMonths]

EvalArgs ==
    [currentTemp : EvalTemps, hoursBelow28 : EvalHours,
     currentInventory : EvalInventories,
     marketContext : {{}} \cup {{c} : c \in EvalContexts},
     rsiValue : {{}} \cup {{r} : r \in EvalRsi}]

\* Price histories: a first price followed by up to three runs of equal daily
\* changes, in cents; between one delta too few for the period and
\* MaxExtraDeltas deltas beyond it.
BasePrice == 500
MaxExtraDeltas == 2
RsiChanges == {-2, -1, 0, 1, 3}
RsiRuns ==
    {r \in [n : [1..3 -> 0..(RSI_PERIOD + MaxExtraDeltas)], d : [1..3 -> RsiChanges]] :
        /\ r.n[1] + r.n[2] + r.n[3] >= RSI_PERIOD - 1
        /\ r.n[1] + r.n[2] + r.n[3] <= RSI_PERIOD + MaxExtraDeltas}

\* The prices of a run description r.
PricesOf(r) ==
    [i \in 1..(r.n[1] + r.n[2] + r.n[3] + 1) |->
        LET k == i - 1
            a == IF k < r.n[1] THEN k ELSE r.n[1]
            b == IF k - a < r.n[2] THEN k - a ELSE r.n[2]
            c == k - a - b
        IN  BasePrice + a * r.d[1] + b * r.d[2] + c * r.d[3]]

RsiArgs == {[closingPrices |-> PricesOf(r), period |-> RSI_PERIOD] : r \in RsiRuns}

(***************************************************************************)
(* Initial state: first launch, empty localStorage, component rendered     *)
(***************************************************************************)
AppInit ==
    /\ calendarMonth = StartMonth
    /\ now = StartTime
    /\ phase = "render"
    /\ currentTemp = DEFAULT_TEMP
    /\ hoursBelow28 = 0
    /\ currentInventory = DEFAULT_INVENTORY
    /\ marketContext = DefaultContext(StartMonth)
    /\ rsiValue = loadRsiValue({})
    /\ frostData = loadFrostData({}, StartTime)
    /\ damageAlertShownRef = FALSE
    /\ showDamageAlert = FALSE
    /\ frostStore = {}
    /\ marketStore = {}
    /\ rsiStore = {}
    /\ lastSyncTimestamp = 0
    /\ rsiSyncError = FALSE
    /\ syncInFlight = {}
    /\ episodeAlerts = 0
    /\ dataIsStale = DataIsStaleMemo(0, StartTime)
    /\ signalRuns = {CurrentInput}
    /\ fetched = NothingFetched
    /\ blueprintData = {}
    /\ priceSub = NotSubscribed

Init ==
    /\ AppInit
    /\ args = [currentTemp |-> DEFAULT_TEMP, hoursBelow28 |-> 0,
               currentInventory |-> DEFAULT_INVENTORY, marketContext |-> {},
               rsiValue |-> {}]
    /\ result = {}
    /\ prevResult = {}

EvalInit ==
    /\ AppInit
    /\ args \in EvalArgs
    /\ result = {}
    /\ prevResult = {}

(***************************************************************************)
(* Evaluator under test: calls with the same arguments at successive times *)
(***************************************************************************)
Evaluate ==
    /\ result' = {calculateMarketSignalBrowser(args.currentTemp, args.hoursBelow28,
                      args.currentInventory, args.marketContext, args.rsiValue,
                      calendarMonth)}
    /\ prevResult' = result
    /\ UNCHANGED <<args, calendarMonth>>
    /\ UNCHANGED appVars
    /\ UNCHANGED sideVars

\* The calendar month changes between two calls.
MonthRollover ==
    /\ calendarMonth # ((StartMonth + MaxRollovers - 1) % 12) + 1
    /\ calendarMonth' = (calendarMonth % 12) + 1
    /\ UNCHANGED evalVars
    /\ UNCHANGED appVars
    /\ UNCHANGED sideVars

EvalNext == Evaluate \/ MonthRollover

EvalSpec == EvalInit /\ [][EvalNext]_vars

(***************************************************************************)
(* The RSI calculator called on a price history                            *)
(***************************************************************************)
RsiInit ==
    /\ AppInit
    /\ args \in RsiArgs
    /\ result = {}
    /\ prevResult = {}

\* rsiValue = calculateRSI(validPrices, period), as fetchLiveMarketRSI calls it.
ComputeRSI ==
    /\ result = {}
    /\ result' = {calculateRSI(args.closingPrices, args.period)}
    /\ UNCHANGED <<args, prevResult, calendarMonth>>
    /\ UNCHANGED appVars
    /\ UNCHANGED sideVars

RsiNext == ComputeRSI

RsiSpec == RsiInit /\ [][RsiNext]_vars

(***************************************************************************)
(* PredictorDashboard                                                      *)
(***************************************************************************)
\* First effects after the component rendered: the RSI save effect, the frost
\* tracking effect, the hoursBelow28 effect.
MountEffects ==
    /\ phase = "render"
    /\ phase' = "running"
    /\ rsiStore' = {rsiValue}
    /\ SetTracker(FrostEffect(Tracker, currentTemp, now), hoursBelow28)
    /\ UNCHANGED <<now, currentTemp, currentInventory, marketContext, rsiValue,
                   showDamageAlert, marketStore, lastSyncTimestamp, rsiSyncError,
                   syncInFlight>>
    /\ UNCHANGED dataIsStale
    /\ signalRuns' = SignalRuns(<<CurrentInput, CurrentInput'>>)
    /\ UNCHANGED <<evalVars, calendarMonth>>
    /\ UNCHANGED sideVars

\* The setInterval callback, d milliseconds after the previous tick.
Tick(d) ==
    /\ phase = "running"
    /\ IntervalActive
    /\ CanAdvance(now, d)
    /\ now' = now + d
    /\ LET newData == [frostData EXCEPT !.accumulatedSeconds = @ + 1,
                                        !.lastUpdateTime = now + d]
           fires == /\ newData.accumulatedSeconds
                          >= CRITICAL_FROST_HOURS * SecondsPerHour
                    /\ ~damageAlertShownRef
       IN  /\ frostData' = newData
           /\ frostStore' = {newData}
           /\ damageAlertShownRef' = (damageAlertShownRef \/ fires)
           /\ showDamageAlert' = (showDamageAlert \/ fires)
           /\ episodeAlerts' = IF fires THEN episodeAlerts + 1 ELSE episodeAlerts
           /\ hoursBelow28' = HoursEffect(newData, hoursBelow28)
    /\ UNCHANGED <<phase, currentTemp, currentInventory, marketContext, rsiValue,
                   marketStore, rsiStore, lastSyncTimestamp, rsiSyncError,
                   syncInFlight>>
    /\ UNCHANGED dataIsStale
    /\ signalRuns' = SignalRuns(<<CurrentInput, CurrentInput'>>)
    /\ UNCHANGED <<evalVars, calendarMonth>>
    /\ UNCHANGED sideVars

\* Time passes while no interval is set.
PassTime(d) ==
    /\ phase = "running"
    /\ ~IntervalActive
    /\ CanAdvance(now, d)
    /\ now' = now + d
    /\ UNCHANGED <<phase, currentTemp, hoursBelow28, currentInventory, marketContext,
                   rsiValue, frostData, damageAlertShownRef, showDamageAlert,
                   frostStore, marketStore, rsiStore, lastSyncTimestamp,
                   rsiSyncError, syncInFlight, episodeAlerts>>
    /\ UNCHANGED dataIsStale
    /\ signalRuns' = {}
    /\ UNCHANGED <<evalVars, calendarMonth>>
    /\ UNCHANGED sideVars

\* The page is closed and opened again d milliseconds later: every useState
\* and useRef initialiser runs against localStorage.
Restart(d) ==
    /\ phase = "running"
    /\ CanAdvance(now, d)
    /\ now' = now + d
    /\ phase' = "render"
    /\ IF marketStore = {}
       THEN /\ currentTemp' = DEFAULT_TEMP
            /\ hoursBelow28' = 0
            /\ currentInventory' = DEFAULT_INVENTORY
            /\ marketContext' = DefaultContext(calendarMonth)
            /\ lastSyncTimestamp' = 0
       ELSE LET persistedData == CHOOSE m \in marketStore : TRUE
            IN  /\ currentTemp' = persistedData.currentTemp
                /\ hoursBelow28' = persistedData.hoursBelow28
                /\ currentInventory' = persistedData.currentInventory
                /\ marketContext' = persistedData.marketContext
                /\ lastSyncTimestamp' = persistedData.lastSyncTimestamp
    /\ frostData' = loadFrostData(frostStore, now + d)
    /\ damageAlertShownRef' = FALSE
    /\ showDamageAlert' = FALSE
    /\ rsiValue' = loadRsiValue(rsiStore)
    /\ rsiSyncError' = FALSE
    /\ syncInFlight' = {}
    /\ UNCHANGED <<frostStore, marketStore, rsiStore, episodeAlerts>>
    /\ dataIsStale' = DataIsStaleMemo(lastSyncTimestamp', now')
    /\ signalRuns' = {CurrentInput'}
    /\ UNCHANGED <<evalVars, calendarMonth>>
    /\ fetched' = NothingFetched
    /\ blueprintData' = {}
    /\ UNCHANGED priceSub

\* handleResetFrostTracker, and the frost effect that runs when the reset
\* changed frostData.isTracking.
handleResetFrostTracker ==
    /\ phase = "running"
    /\ LET newData == [accumulatedSeconds |-> 0, isTracking |-> FALSE,
                       lastUpdateTime |-> now]
           f == [frostData |-> newData, frostStore |-> {newData},
                 damageAlertShownRef |-> FALSE, episodeAlerts |-> episodeAlerts]
       IN  SetTracker(IF frostData.isTracking THEN FrostEffect(f, currentTemp, now)
                      ELSE f, 0)
    /\ UNCHANGED <<now, phase, currentTemp, currentInventory, marketContext, rsiValue,
                   showDamageAlert, marketStore, rsiStore, lastSyncTimestamp,
                   rsiSyncError, syncInFlight>>
    /\ UNCHANGED dataIsStale
    /\ signalRuns' = SignalRuns(<<CurrentInput, CurrentInput'>>)
    /\ UNCHANGED <<evalVars, calendarMonth>>
    /\ UNCHANGED sideVars

\* fetchLiveMarketData: the marketData of the response; weather is the
\* temperature the weather API answered, as a set, empty when the request
\* failed and fetchWeatherData fell back to its default.
fetchLiveMarketData(weather) ==
    [currentTemp |-> IF weather = {} THEN FALLBACK_TEMP
                     ELSE CHOOSE t \in weather : TRUE,
     inventory |-> FIXED_INVENTORY_LEVEL,
     isHurricaneAlert |-> FALSE]

\* An RSI fetch that hides its failure behind the neutral value.
fetchLiveMarketRSI_SilentFallback(quote) ==
    IF quote = {} THEN [value |-> DEFAULT_RSI, error |-> FALSE]
    ELSE [value |-> CHOOSE v \in quote : TRUE, error |-> FALSE]

\* fetchLiveMarketRSI: quote is the computed RSI as a set, empty on any error.
fetchLiveMarketRSI(quote) ==
    IF quote = {} THEN [value |-> DEFAULT_RSI, error |-> TRUE]
    ELSE [value |-> CHOOSE v \in quote : TRUE, error |-> FALSE]

\* handleSyncLiveData up to its await: the callback's closure is fixed.
SyncStart ==
    /\ phase = "running"
    /\ syncInFlight = {}
    /\ syncInFlight' = {[currentInventory |-> currentInventory,
                         hoursBelow28 |-> hoursBelow28,
                         marketContext |-> marketContext]}
    /\ UNCHANGED <<now, phase, currentTemp, hoursBelow28, currentInventory,
                   marketContext, rsiValue, frostData, damageAlertShownRef,
                   showDamageAlert, frostStore, marketStore, rsiStore,
                   lastSyncTimestamp, rsiSyncError, episodeAlerts>>
    /\ UNCHANGED dataIsStale
    /\ signalRuns' = {}
    /\ UNCHANGED <<evalVars, calendarMonth>>
    /\ fetched' = NothingFetched
    /\ UNCHANGED <<blueprintData, priceSub>>

\* A handler that also applies the snapshot's inventory and hurricane alert.
SyncComplete_AppliesSnapshot(weather, quote) ==
    /\ phase = "running"
    /\ syncInFlight # {}
    /\ LET closure == CHOOSE c \in syncInFlight : TRUE
           marketData == fetchLiveMarketData(weather)
           temp == marketData.currentTemp
           rsiResult == fetchLiveMarketRSI(quote)
           rsi == IF rsiResult.error THEN rsiValue ELSE rsiResult.value
       IN  /\ currentTemp' = temp
           /\ rsiValue' = rsi
           /\ IF ~rsiResult.error
              THEN /\ rsiStore' = {rsiResult.value}
                   /\ rsiSyncError' = FALSE
              ELSE /\ rsiSyncError' = TRUE
                   /\ UNCHANGED rsiStore
           /\ lastSyncTimestamp' = now
           /\ dataIsStale' = IF now # lastSyncTimestamp
                             THEN DataIsStaleMemo(now, now) ELSE dataIsStale
           /\ marketStore' = {[currentTemp |-> temp,
                               currentInventory |-> closure.currentInventory,
                               hoursBelow28 |-> closure.hoursBelow28,
                               marketContext |-> closure.marketContext,
                               lastSyncTimestamp |-> now]}
           /\ SetTracker(FrostEffect(Tracker, temp, now), hoursBelow28)
           /\ currentInventory' = marketData.inventory
           /\ marketContext' = [marketContext EXCEPT
                                   !.isHurricaneActive = marketData.isHurricaneAlert]
           /\ UNCHANGED <<now, phase, showDamageAlert>>
           /\ signalRuns' = SignalRuns(<<CurrentInput>>
                                         \o SyncStateUpdates(CurrentInput, temp, rsi)
                                         \o <<CurrentInput'>>)
    /\ syncInFlight' = {}
    /\ UNCHANGED <<evalVars, calendarMonth>>
    /\ UNCHANGED sideVars

\* handleSyncLiveData after Promise.all resolved, and the effects it triggers.
SyncComplete(weather, quote) ==
    /\ phase = "running"
    /\ syncInFlight # {}
    /\ LET closure == CHOOSE c \in syncInFlight : TRUE
           temp == fetchLiveMarketData(weather).currentTemp
           rsiResult == fetchLiveMarketRSI(quote)
           rsi == IF rsiResult.error THEN rsiValue ELSE rsiResult.value
       IN  /\ currentTemp' = temp
           /\ rsiValue' = rsi
           /\ IF ~rsiResult.error
              THEN /\ rsiStore' = {rsiResult.value}
                   /\ rsiSyncError' = FALSE
              ELSE /\ rsiSyncError' = TRUE
                   /\ UNCHANGED rsiStore
           /\ lastSyncTimestamp' = now
           /\ dataIsStale' = IF now # lastSyncTimestamp
                             THEN DataIsStaleMemo(now, now) ELSE dataIsStale
           /\ marketStore' = {[currentTemp |-> temp,
                               currentInventory |-> closure.currentInventory,
                               hoursBelow28 |-> closure.hoursBelow28,
                               marketContext |-> closure.marketContext,
                               lastSyncTimestamp |-> now]}
           /\ SetTracker(FrostEffect(Tracker, temp, now), hoursBelow28)
           /\ UNCHANGED <<now, phase, currentInventory, marketContext,
                          showDamageAlert>>
           /\ signalRuns' = SignalRuns(<<CurrentInput>>
                                         \o SyncStateUpdates(CurrentInput, temp, rsi)
                                         \o <<CurrentInput'>>)
    /\ syncInFlight' = {}
    /\ UNCHANGED <<evalVars, calendarMonth>>
    /\ UNCHANGED sideVars

\* onDismiss of the damage alert modal.
DismissAlert ==
    /\ phase = "running"
    /\ showDamageAlert
    /\ showDamageAlert' = FALSE
    /\ UNCHANGED <<now, phase, currentTemp, hoursBelow28, currentInventory,
                   marketContext, rsiValue, frostData, damageAlertShownRef,
                   frostStore, marketStore, rsiStore, lastSyncTimestamp,
                   rsiSyncError, syncInFlight, episodeAlerts>>
    /\ UNCHANGED dataIsStale
    /\ signalRuns' = {}
    /\ UNCHANGED <<evalVars, calendarMonth>>
    /\ UNCHANGED sideVars

Next ==
    \/ MountEffects
    \/ \E d \in TickDelays : Tick(d)
    \/ \E d \in IdleDelays : PassTime(d)
    \/ \E d \in OfflineDelays : Restart(d)
    \/ handleResetFrostTracker
    \/ SyncStart
    \/ \E weather \in {{}} \cup {{t} : t \in FetchedTemps},
          quote \in {{}} \cup {{r} : r \in FetchedRsi} : SyncComplete(weather, quote)
    \/ DismissAlert

Spec == Init /\ [][Next]_vars


(***************************************************************************)
(* The dashboard with its market context controls and long waits           *)
(***************************************************************************)
\* setMarketContext with the context a control of MarketContextSection built.
SetMarketContext(context) ==
    /\ phase = "running"
    /\ marketContext' = context
    /\ UNCHANGED <<now, phase, currentTemp, hoursBelow28, currentInventory,
                   rsiValue, frostData, damageAlertShownRef, showDamageAlert,
                   frostStore, marketStore, rsiStore, lastSyncTimestamp,
                   rsiSyncError, syncInFlight, episodeAlerts, dataIsStale>>
    /\ signalRuns' = SignalRuns(<<CurrentInput, CurrentInput'>>)
    /\ UNCHANGED <<evalVars, calendarMonth>>
    /\ UNCHANGED sideVars

\* The "La Nina Active" switch.
ToggleLaNina ==
    SetMarketContext([marketContext EXCEPT !.isLaNina = ~@])

\* The "Hurricane Warning" switch: switching it off also clears the distance
\* checkbox.
ToggleHurricaneWarning ==
    LET checked == ~marketContext.isHurricaneActive
    IN  SetMarketContext([marketContext EXCEPT
            !.isHurricaneActive = checked,
            !.hurricaneCenterFarFromPolk = IF checked THEN @ ELSE FALSE])

\* The distance checkbox, rendered only while the warning is on.
ToggleCenterFar ==
    /\ marketContext.isHurricaneActive
    /\ SetMarketContext([marketContext EXCEPT !.hurricaneCenterFarFromPolk = ~@])

\* The dashboard in weather above the critical threshold, where the tracker
\* stays Idle and no interval is set.
SyncWaits == {MsPerSecond, StaleDelay}
SyncFetchedTemps == {30, 33}

DashboardNext ==
    \/ MountEffects
    \/ \E d \in SyncWaits : PassTime(d)
    \/ ToggleLaNina
    \/ ToggleHurricaneWarning
    \/ ToggleCenterFar
    \/ SyncStart
    \/ \E weather \in {{}} \cup {{t} : t \in SyncFetchedTemps},
          quote \in {{}} \cup {{r} : r \in FetchedRsi} : SyncComplete(weather, quote)

DashboardSpec == Init /\ [][DashboardNext]_vars

(***************************************************************************)
(* The critical-exposure alert and the trade blueprint                     *)
(***************************************************************************)
\* The "Generate Trade Blueprint" button of the damage alert modal.
handleGenerateBlueprint ==
    /\ phase = "running"
    /\ showDamageAlert
    /\ blueprintData' = {currentBlueprintData}
    /\ showDamageAlert' = FALSE
    /\ signalRuns' = {}
    /\ UNCHANGED <<now, phase, currentTemp, hoursBelow28, currentInventory,
                   marketContext, rsiValue, frostData, damageAlertShownRef,
                   frostStore, marketStore, rsiStore, lastSyncTimestamp,
                   rsiSyncError, syncInFlight, episodeAlerts, dataIsStale>>
    /\ UNCHANGED <<fetched, priceSub>>
    /\ UNCHANGED <<evalVars, calendarMonth>>

\* A frost the evaluator counts as critical, long enough for the alert.
BlueprintTemps == {27}

BlueprintNext ==
    \/ MountEffects
    \/ Tick(MsPerSecond)
    \/ Restart(LongDelay)
    \/ ToggleLaNina
    \/ ToggleHurricaneWarning
    \/ ToggleCenterFar
    \/ SyncStart
    \/ \E weather \in {{t} : t \in BlueprintTemps},
          quote \in {{}} \cup {{r} : r \in FetchedRsi} : SyncComplete(weather, quote)
    \/ DismissAlert
    \/ handleGenerateBlueprint

BlueprintSpec == Init /\ [][BlueprintNext]_vars

(***************************************************************************)
(* subscribeToPriceUpdates: one subscription, its interval and its fetches *)
(***************************************************************************)
MaxPriceTicks == 4

PriceOutcomes == {"priceData", "null", "throws"}

\* updatePrice up to its await: nothing happens once isActive is false,
\* otherwise one more fetchOrangeJuicePrice is in flight.
updatePrice(sub) ==
    IF ~sub.isActive THEN sub ELSE [sub EXCEPT !.inFlight = @ + 1]

\* let isActive = true; updatePrice(); intervalId = setInterval(updatePrice, ...)
subscribeToPriceUpdates ==
    /\ ~priceSub.subscribed
    /\ priceSub' = [updatePrice([priceSub EXCEPT !.subscribed = TRUE,
                                                 !.isActive = TRUE])
                       EXCEPT !.intervalSet = TRUE]
    /\ UNCHANGED <<evalVars, calendarMonth, fetched, blueprintData>>
    /\ UNCHANGED appVars

\* The interval calls updatePrice.
PriceIntervalFires ==
    /\ priceSub.intervalSet
    /\ priceSub.ticks < MaxPriceTicks
    /\ priceSub' = [updatePrice(priceSub) EXCEPT !.ticks = @ + 1]
    /\ UNCHANGED <<evalVars, calendarMonth, fetched, blueprintData>>
    /\ UNCHANGED appVars

\* updatePrice after its await: callback(priceData), priceData being null when
\* no source answered, or callback(null) from the catch block.  isActive is not
\* read again.
PriceFetchSettles(outcome) ==
    /\ priceSub.inFlight > 0
    /\ priceSub' = [priceSub EXCEPT
                       !.inFlight = @ - 1,
                       !.calls = @ + 1,
                       !.lateCalls = IF priceSub.isActive THEN @ ELSE @ + 1,
                       !.lastArg = IF outcome = "priceData" THEN "priceData"
                                   ELSE "null"]
    /\ UNCHANGED <<evalVars, calendarMonth, fetched, blueprintData>>
    /\ UNCHANGED appVars

\* The returned function: isActive = false; clearInterval(intervalId).
unsubscribe ==
    /\ priceSub.subscribed
    /\ priceSub.isActive
    /\ priceSub' = [priceSub EXCEPT !.isActive = FALSE, !.intervalSet = FALSE]
    /\ UNCHANGED <<evalVars, calendarMonth, fetched, blueprintData>>
    /\ UNCHANGED appVars

PriceNext ==
    \/ subscribeToPriceUpdates
    \/ PriceIntervalFires
    \/ \E outcome \in PriceOutcomes : PriceFetchSettles(outcome)
    \/ unsubscribe

PriceSpec == Init /\ [][PriceNext]_vars

(***************************************************************************)
(* The dashboard across a change of month                                  *)
(***************************************************************************)
CalendarNext ==
    \/ MountEffects
    \/ MonthRollover
    \/ \E d \in IdleDelays : PassTime(d)
    \/ \E d \in OfflineDelays : Restart(d)
    \/ ToggleLaNina
    \/ SyncStart
    \/ \E weather \in {{}} \cup {{t} : t \in SyncFetchedTemps},
          quote \in {{}} \cup {{r} : r \in FetchedRsi} : SyncComplete(weather, quote)

CalendarSpec == Init /\ [][CalendarNext]_vars

(***************************************************************************)
(* One sync with its two fetches answered one by one                       *)
(***************************************************************************)
\* A step of the sync that only records a fetch's answer f.
RecordFetched(f) ==
    /\ phase = "running"
    /\ syncInFlight # {}
    /\ fetched' = f
    /\ signalRuns' = {}
    /\ UNCHANGED <<now, phase, currentTemp, hoursBelow28, currentInventory,
                   marketContext, rsiValue, frostData, damageAlertShownRef,
                   showDamageAlert, frostStore, marketStore, rsiStore,
                   lastSyncTimestamp, rsiSyncError, syncInFlight, episodeAlerts,
                   dataIsStale>>
    /\ UNCHANGED <<blueprintData, priceSub>>
    /\ UNCHANGED <<evalVars, calendarMonth>>

\* The promise of fetchLiveMarketData settles; it always fulfils, with the
\* fallback reading when the request failed.
WeatherFetchSettles(weather) ==
    /\ fetched.weather = <<>>
    /\ RecordFetched([fetched EXCEPT !.weather = <<weather>>])

\* The promise of fetchLiveMarketRSI settles; the request has no timeout.
RsiFetchSettles(quote) ==
    /\ fetched.rsi = <<>>
    /\ RecordFetched([fetched EXCEPT !.rsi = <<quote>>])

\* await Promise.all([...]) resumes handleSyncLiveData once both have settled.
PromiseAllResolves ==
    /\ fetched.weather # <<>>
    /\ fetched.rsi # <<>>
    /\ SyncComplete(fetched.weather[1], fetched.rsi[1])

FetchNext ==
    \/ MountEffects
    \/ \E d \in TickDelays : Tick(d)
    \/ \E d \in IdleDelays : PassTime(d)
    \/ SyncStart
    \/ \E weather \in {{}} \cup {{t} : t \in FetchedTemps} : WeatherFetchSettles(weather)
    \/ \E quote \in {{}} \cup {{r} : r \in FetchedRsi} : RsiFetchSettles(quote)
    \/ PromiseAllResolves

FetchSpec == Init /\ [][FetchNext]_vars

\* The event loop runs the continuation of a settled Promise.all; nothing
\* obliges the remote servers to answer.
FetchFairSpec == FetchSpec /\ WF_vars(PromiseAllResolves)

(***************************************************************************)
(* Properties of the decision engine (checked under EvalSpec)              *)
(***************************************************************************)
Evaluated == result # {}

Returned == CHOOSE r \in result : TRUE

ArgContextGiven == args.marketContext # {}

ArgContext == CHOOSE c \in args.marketContext : TRUE

\* The override conditions and the La Nina flag as the caller's arguments
\* state them; an omitted context has every flag false and a rainfall index 0.
ArgDrought ==
    /\ ArgContextGiven
    /\ ArgContext.currentMonth \in {8, 9, 10}
    /\ ArgContext.brazilRainfallIndex < -150

ArgRsi == IF args.rsiValue = {} THEN 50 ELSE CHOOSE r \in args.rsiValue : TRUE

ArgTakeProfit == ArgRsi > 70 /\ args.currentTemp > 35

ArgFalseAlarm ==
    /\ ArgContextGiven
    /\ ArgContext.isHurricaneActive
    /\ ArgContext.hurricaneCenterFarFromPolk

ArgLaNina == ArgContextGiven /\ ArgContext.isLaNina

NoOverride == ~ArgDrought /\ ~ArgTakeProfit /\ ~ArgFalseAlarm

BaselineActions ==
    {"Double Position", "Increase Position", "Reduce Position", "Hold Position",
     "Monitor"}

\* p (hundredths) is w (1/10000) rounded to 2 decimals.
IsRounded2(p, w) == 100 * p - 50 <= w /\ w < 100 * p + 50

\* C1: with currentMonth in {8,9,10} and brazilRainfallIndex < -1.5 the result is
\* "STRONG LONG (Brazil Drought)" with the fixed drought win rate, whatever the
\* temperature, frost hours, inventory, RSI, La Nina and hurricane inputs are.
C1_BrazilDroughtOverride ==
    (Evaluated /\ ArgDrought) =>
        /\ Returned.recommendedAction = "STRONG LONG (Brazil Drought)"
        /\ Returned.winProbability = BRAZIL_DROUGHT_WIN_RATE

C1_Witness ==
    /\ Evaluated
    /\ ArgDrought /\ ArgTakeProfit /\ ArgFalseAlarm /\ ArgLaNina
    /\ args.currentInventory < 35
    /\ Returned.recommendedAction = "STRONG LONG (Brazil Drought)"

\* C2: with rsiValue > 70 and currentTemp > 35 and no Brazil drought override the
\* result is "TAKE PROFIT / SELL" with the fixed take-profit win rate; La Nina
\* and an inventory below 35 neither amplify nor change it.
C2_TakeProfitOverride ==
    (Evaluated /\ ArgTakeProfit /\ ~ArgDrought) =>
        /\ Returned.recommendedAction = "TAKE PROFIT / SELL"
        /\ Returned.winProbability = RSI_TAKE_PROFIT_WIN_RATE

C2_Witness ==
    /\ Evaluated
    /\ ArgTakeProfit /\ ~ArgDrought /\ ArgLaNina
    /\ args.currentInventory < 35
    /\ Returned.winProbability = RSI_TAKE_PROFIT_WIN_RATE

\* C3: when several override conditions hold the highest-priority one (Brazil
\* drought > RSI take-profit > hurricane false alarm) produces the result, and
\* the baseline evaluation with its La Nina factor produces it only when none
\* of the three conditions holds.
C3_OverridePriority ==
    Evaluated =>
        /\ ArgDrought =>
              /\ Returned.recommendedAction = "STRONG LONG (Brazil Drought)"
              /\ Returned.winProbability = BRAZIL_DROUGHT_WIN_RATE
        /\ (~ArgDrought /\ ArgTakeProfit) =>
              /\ Returned.recommendedAction = "TAKE PROFIT / SELL"
              /\ Returned.winProbability = RSI_TAKE_PROFIT_WIN_RATE
        /\ (~ArgDrought /\ ~ArgTakeProfit /\ ArgFalseAlarm) =>
              /\ Returned.recommendedAction = "SELL/SHORT (False Alarm)"
              /\ Returned.winProbability = HURRICANE_FALSE_ALARM_WIN_RATE
        /\ (Returned.recommendedAction \in BaselineActions) <=> NoOverride
        /\ (Returned.insight.laNinaEffect # Undefined) => NoOverride

C3_Witness ==
    /\ Evaluated
    /\ ~ArgDrought /\ ArgTakeProfit /\ ArgFalseAlarm /\ ArgLaNina
    /\ Returned.recommendedAction = "TAKE PROFIT / SELL"

\* The claimed base rate (hundredths) and multiplier (tenths) of the baseline.
ClaimedBase ==
    IF args.currentTemp < 28 /\ args.hoursBelow28 >= 4 THEN real_frost
    ELSE IF args.currentTemp < 28 /\ args.hoursBelow28 < 4 THEN volatility_pre_frost
    ELSE 50

ClaimedMult ==
    IF args.currentInventory < 35 THEN 20
    ELSE IF 35 <= args.currentInventory /\ args.currentInventory <= 45 THEN 15
    ELSE IF args.currentInventory > 55 THEN 7
    ELSE 10

ClaimedProduct == ClaimedBase * ClaimedMult * (IF ArgLaNina THEN 14 ELSE 10)

\* C4: with no override, winProbability is min(base x mult x (1.4 under La Nina,
\* else 1), 0.95) rounded to 2 decimals, base and mult chosen by the frost regime
\* and the inventory band.
C4_BaselineWinProbability ==
    (Evaluated /\ NoOverride) =>
        IsRounded2(Returned.winProbability,
                   IF ClaimedProduct > 9500 THEN 9500 ELSE ClaimedProduct)

C4_Witness ==
    /\ Evaluated /\ NoOverride
    /\ args.currentTemp = 20 /\ args.hoursBelow28 = 5 /\ args.currentInventory = 30
    /\ ~ArgLaNina
    /\ Returned.winProbability = 95

\* C5: in every branch 0 <= winProbability <= 0.95.
C5_WinProbabilityRange ==
    Evaluated => (0 <= Returned.winProbability /\ Returned.winProbability <= 95)

C5_Witness ==
    /\ Evaluated /\ NoOverride
    /\ ClaimedProduct > 9500
    /\ ArgLaNina
    /\ Returned.winProbability = 95

\* C6: in the baseline branch the action is the first match of: inventory < 35
\* "Double Position"; inventory <= 45 and temp < 28 "Increase Position";
\* inventory > 55 "Reduce Position"; temp < 28 and hours >= 4 "Hold Position";
\* else "Monitor" - a function of inventory, temperature and hours alone.
C6_BaselineAction ==
    (Evaluated /\ NoOverride) =>
        Returned.recommendedAction =
            IF args.currentInventory < 35 THEN "Double Position"
            ELSE IF args.currentInventory <= 45 /\ args.currentTemp < 28
            THEN "Increase Position"
            ELSE IF args.currentInventory > 55 THEN "Reduce Position"
            ELSE IF args.currentTemp < 28 /\ args.hoursBelow28 >= 4
            THEN "Hold Position"
            ELSE "Monitor"

C6_Witness ==
    /\ Evaluated /\ NoOverride
    /\ args.currentInventory > 55 /\ args.currentTemp < 28 /\ args.hoursBelow28 >= 4
    /\ ArgLaNina /\ ArgRsi > 70
    /\ Returned.recommendedAction = "Reduce Position"

\* C7: two calls with identical arguments, the marketContext omitted or not and
\* made at different moments, return identical results in every field.
C7_Deterministic ==
    (result # {} /\ prevResult # {}) => result = prevResult

\* The numeric output rebuilt from the insight.
RebuiltFromInsight ==
    LET i == Returned.insight
        w == i.baseWinRate * i.multiplierApplied
                 * (IF i.laNinaEffect # Undefined THEN 14 ELSE 10)
    IN  IsRounded2(Returned.winProbability, IF w > 9500 THEN 9500 ELSE w)

\* C8 as claimed: the output can be rebuilt from the insight, and each of
\* brazilDroughtEffect, rsiEffect, hurricaneEffect is set exactly when its
\* override produced the action.
C8_InsightNamesExactlyTheOverride ==
    Evaluated =>
        /\ RebuiltFromInsight
        /\ (Returned.insight.brazilDroughtEffect # Undefined)
              <=> (Returned.recommendedAction = "STRONG LONG (Brazil Drought)")
        /\ (Returned.insight.rsiEffect # Undefined)
              <=> (Returned.recommendedAction = "TAKE PROFIT / SELL")
        /\ (Returned.insight.hurricaneEffect # Undefined)
              <=> (Returned.recommendedAction = "SELL/SHORT (False Alarm)")

\* C8 amended: the output can be rebuilt from the insight in every branch, and
\* when an override produced the action, the insight field of that override is
\* set and the fields of the other two overrides are absent.
C8_InsightAuditable ==
    Evaluated =>
        /\ RebuiltFromInsight
        /\ (Returned.recommendedAction = "STRONG LONG (Brazil Drought)") =>
              /\ Returned.insight.brazilDroughtEffect # Undefined
              /\ Returned.insight.rsiEffect = Undefined
              /\ Returned.insight.hurricaneEffect = Undefined
        /\ (Returned.recommendedAction = "TAKE PROFIT / SELL") =>
              /\ Returned.insight.rsiEffect # Undefined
              /\ Returned.insight.brazilDroughtEffect = Undefined
              /\ Returned.insight.hurricaneEffect = Undefined
        /\ (Returned.recommendedAction = "SELL/SHORT (False Alarm)") =>
              /\ Returned.insight.hurricaneEffect # Undefined
              /\ Returned.insight.brazilDroughtEffect = Undefined
              /\ Returned.insight.rsiEffect = Undefined

C8_Witness ==
    /\ Evaluated
    /\ ArgFalseAlarm /\ ArgLaNina /\ ArgRsi > 70
    /\ Returned.recommendedAction = "SELL/SHORT (False Alarm)"
    /\ Returned.insight.hurricaneEffect # Undefined

(***************************************************************************)
(* Properties of the frost exposure tracker (checked under Spec)           *)
(***************************************************************************)
Persisted == CHOOSE d \in frostStore : TRUE

\* C9: within one tracking episode the critical-exposure alert fires exactly
\* once and never again, and the alert-shown flag is cleared only by a return to
\* Idle: while the tracker is still in the episode in which an alert fired, the
\* flag is still set, also after a restart.
C9_AlertOncePerEpisode ==
    /\ episodeAlerts <= 1
    /\ (frostData.isTracking /\ episodeAlerts >= 1) => damageAlertShownRef

\* C10: right after the state initialisers ran and before any effect or tick, a
\* persisted isTracking = true gives accumulatedSeconds = persisted value plus
\* the whole seconds between the persisted lastUpdateTime and now, with
\* lastUpdateTime = now; a persisted isTracking = false is loaded unchanged.
C10_LoadReconstructsElapsed ==
    (phase = "render" /\ frostStore # {}) =>
        IF Persisted.isTracking
        THEN LET k == frostData.accumulatedSeconds - Persisted.accumulatedSeconds
             IN  /\ frostData.isTracking
                 /\ frostData.lastUpdateTime = now
                 /\ k >= 0
                 /\ k * 1000 <= now - Persisted.lastUpdateTime
                 /\ now - Persisted.lastUpdateTime < (k + 1) * 1000
        ELSE frostData = Persisted

C10_Witness ==
    /\ phase = "render"
    /\ frostStore # {}
    /\ Persisted.isTracking
    /\ Persisted.accumulatedSeconds > 0
    /\ now - Persisted.lastUpdateTime > 1000
    /\ (now - Persisted.lastUpdateTime) % 1000 # 0
    /\ frostData.accumulatedSeconds > Persisted.accumulatedSeconds

\* The other case of C10: a persisted Idle record is loaded as it is.
C10_WitnessIdle ==
    /\ phase = "render"
    /\ frostStore # {}
    /\ ~Persisted.isTracking
    /\ now > Persisted.lastUpdateTime

\* C11: while Tracking at or below 28F, each tick increases accumulatedSeconds
\* by the wall-clock seconds elapsed since lastUpdateTime, also when the timer
\* callback was delayed beyond one second, sets lastUpdateTime to the current
\* time, and leaves the persisted tracker state equal to the in-memory one.
C11_TickAddsElapsed ==
    [][(\E d \in TickDelays : Tick(d)) =>
          /\ frostData'.accumulatedSeconds =
                 frostData.accumulatedSeconds
                     + ((now' - frostData.lastUpdateTime) \div MsPerSecond)
          /\ frostData'.lastUpdateTime = now'
          /\ frostStore' = {frostData'}]_vars

\* C12: while the tracker is Tracking, a step other than the manual reset that
\* leaves the temperature in the band 28 < T <= 32 keeps it Tracking and does
\* not lower accumulatedSeconds; the tracker goes to Idle on its own exactly
\* when the temperature is above 32, and that transition sets accumulatedSeconds
\* to 0 and clears the alert-shown flag.
C12_Hysteresis ==
    [][(frostData.isTracking /\ ~handleResetFrostTracker) =>
          /\ (currentTemp' > CRITICAL_TEMP_THRESHOLD
                /\ currentTemp' <= RESET_TEMP_THRESHOLD) =>
                 /\ frostData'.isTracking
                 /\ frostData'.accumulatedSeconds >= frostData.accumulatedSeconds
          /\ ~frostData'.isTracking =>
                 /\ currentTemp' > RESET_TEMP_THRESHOLD
                 /\ frostData'.accumulatedSeconds = 0
                 /\ frostStore' = {frostData'}
                 /\ ~damageAlertShownRef'
          /\ (phase' = "running" /\ currentTemp' > RESET_TEMP_THRESHOLD) =>
                 ~frostData'.isTracking]_vars

\* Tracking survives in the band with its exposure and its alert-shown flag.
C12_Witness ==
    /\ phase = "running"
    /\ frostData.isTracking
    /\ currentTemp > CRITICAL_TEMP_THRESHOLD
    /\ currentTemp <= RESET_TEMP_THRESHOLD
    /\ frostData.accumulatedSeconds > 0
    /\ lastSyncTimestamp = now
    /\ damageAlertShownRef

\* The automatic return to Idle, one degree above the band.
C12_WitnessReset ==
    /\ phase = "running"
    /\ ~frostData.isTracking
    /\ currentTemp = RESET_TEMP_THRESHOLD + 1
    /\ frostStore # {}
    /\ frostData.lastUpdateTime = lastSyncTimestamp
    /\ frostData.accumulatedSeconds = 0

\* C13 as stated: a manual reset, at any temperature (also at or below 28F) and
\* in any tracker state, leaves the in-memory and the persisted tracker state at
\* isTracking = false and accumulatedSeconds = 0, and clears the alert-shown
\* flag.
C13_ResetLeavesIdle ==
    [][handleResetFrostTracker =>
          /\ ~frostData'.isTracking
          /\ frostData'.accumulatedSeconds = 0
          /\ frostStore' = {frostData'}
          /\ ~damageAlertShownRef']_vars

\* What the reset does establish: accumulatedSeconds = 0 in memory and in the
\* store, the alert-shown flag cleared, hoursBelow28 = 0; isTracking is false
\* unless the tracker was Tracking at or below 28F, where the frost effect
\* starts a new episode at once.
C13_ResetZeroesExposure ==
    [][handleResetFrostTracker =>
          /\ frostData'.accumulatedSeconds = 0
          /\ frostData'.lastUpdateTime = now
          /\ frostStore' = {frostData'}
          /\ ~damageAlertShownRef'
          /\ hoursBelow28' = 0
          /\ frostData'.isTracking =
                 (frostData.isTracking /\ currentTemp <= CRITICAL_TEMP_THRESHOLD)]_vars

\* A reset at or below 28F has acted: the store was written at this instant,
\* later than the last sync, and a new episode runs from 0 seconds.
C13_Witness ==
    /\ phase = "running"
    /\ currentTemp <= CRITICAL_TEMP_THRESHOLD
    /\ frostData.isTracking
    /\ frostData.accumulatedSeconds = 0
    /\ frostStore = {frostData}
    /\ frostData.lastUpdateTime = now
    /\ lastSyncTimestamp < now
    /\ ~damageAlertShownRef
    /\ hoursBelow28 = 0

\* A reset in the band has acted: Idle although the temperature is not above 32.
C13_WitnessBand ==
    /\ phase = "running"
    /\ currentTemp <= RESET_TEMP_THRESHOLD
    /\ ~frostData.isTracking
    /\ frostStore = {frostData}
    /\ lastSyncTimestamp > 0
    /\ frostData.lastUpdateTime > lastSyncTimestamp

(***************************************************************************)
(* Properties of the live-data reconciler                                  *)
(***************************************************************************)
\* A sync completes, with any answer of the two fetches.
AnySyncComplete ==
    \E weather \in {{}} \cup {{t} : t \in FetchedTemps \cup SyncFetchedTemps},
       quote \in {{}} \cup {{r} : r \in FetchedRsi} : SyncComplete(weather, quote)

\* C14: a sync leaves currentInventory, isLaNina, isHurricaneActive,
\* hurricaneCenterFarFromPolk and brazilRainfallIndex as they were before it,
\* whatever the fetched snapshot contains, and leaves rsiValue as it was when
\* the RSI fetch failed.
C14_SyncFrame ==
    [][AnySyncComplete =>
          /\ currentInventory' = currentInventory
          /\ marketContext'.isLaNina = marketContext.isLaNina
          /\ marketContext'.isHurricaneActive = marketContext.isHurricaneActive
          /\ marketContext'.hurricaneCenterFarFromPolk
                 = marketContext.hurricaneCenterFarFromPolk
          /\ marketContext'.brazilRainfallIndex = marketContext.brazilRainfallIndex
          /\ rsiSyncError' => rsiValue' = rsiValue]_vars

\* A sync has just changed the temperature while the operator's context and the
\* inventory differ from what the snapshot carried.
C14_Witness ==
    /\ phase = "running"
    /\ lastSyncTimestamp = now
    /\ syncInFlight = {}
    /\ marketContext.isLaNina
    /\ marketContext.isHurricaneActive
    /\ marketContext.hurricaneCenterFarFromPolk
    /\ fetchLiveMarketData({currentTemp}).isHurricaneAlert # marketContext.isHurricaneActive
    /\ fetchLiveMarketData({currentTemp}).inventory # currentInventory
    /\ signalRuns = {CurrentInput}
    /\ \A m \in marketStore : m.currentTemp = currentTemp

\* C15: when the RSI fetch of a sync fails, rsiValue and its stored copy keep
\* their earlier values, the RSI error annotation is set, the fetched
\* temperature is applied and the sync timestamp is stamped.
C15_RsiFailureKeepsValue ==
    [][\A weather \in {{}} \cup {{t} : t \in FetchedTemps \cup SyncFetchedTemps} :
          SyncComplete(weather, {}) =>
              /\ rsiValue' = rsiValue
              /\ rsiStore' = rsiStore
              /\ rsiSyncError'
              /\ \A t \in weather : currentTemp' = t
              /\ lastSyncTimestamp' = now
              /\ \A m \in marketStore' : /\ m.currentTemp = currentTemp'
                                         /\ m.lastSyncTimestamp = now]_vars

\* A sync whose RSI fetch failed has just applied a new temperature while the
\* RSI of an earlier, successful sync is still in place.
C15_Witness ==
    /\ phase = "running"
    /\ rsiSyncError
    /\ lastSyncTimestamp = now
    /\ rsiValue \in FetchedRsi
    /\ rsiValue # DEFAULT_RSI
    /\ rsiStore = {rsiValue}
    /\ currentTemp \in FetchedTemps
    /\ signalRuns = {CurrentInput}

\* C16: when the weather fetch of a sync fails, currentTemp keeps its last-known
\* value: no substitute temperature is written to it, none reaches the
\* evaluator, and none moves the frost tracker.
C16_WeatherFailureKeepsTemp ==
    [][\A quote \in {{}} \cup {{r} : r \in FetchedRsi} :
          SyncComplete({}, quote) =>
              /\ currentTemp' = currentTemp
              /\ \A e \in signalRuns' : e.currentTemp = currentTemp
              /\ frostData'.isTracking = frostData.isTracking
              /\ frostData'.accumulatedSeconds = frostData.accumulatedSeconds]_vars

\* C17: at every moment after a successful sync, the stale flag shown to the
\* user is true exactly when now - lastSyncTimestamp > 30 minutes, so that it
\* becomes true through the passage of time alone.
C17_StaleFlagFollowsClock ==
    (phase = "running" /\ lastSyncTimestamp > 0) =>
        (dataIsStale <=> isDataStale(lastSyncTimestamp, now))

\* What does hold: staleness is computed when the component mounts and when
\* lastSyncTimestamp changes, so the flag is never raised for fresh data.
C17_StaleFlagNeverEarly ==
    dataIsStale => (lastSyncTimestamp > 0 /\ isDataStale(lastSyncTimestamp, now))

(***************************************************************************)
(* Properties of the RSI calculator (checked under RsiSpec)                *)
(***************************************************************************)
PriceChanges ==
    {args.closingPrices[i + 1] - args.closingPrices[i] :
        i \in 1..(Len(args.closingPrices) - 1)}

\* C18: for every price sequence of at least period + 1 numbers, with period =
\* 14, calculateRSI returns an integer in [0, 100]; it returns 100 when every
\* delta is a gain and 0 when every delta is a loss.
C18_RsiRange ==
    (result # {} /\ Len(args.closingPrices) >= args.period + 1) =>
        /\ ~Returned.threw
        /\ Returned.value \in 0..100
        /\ (\A c \in PriceChanges : c > 0) => Returned.value = 100
        /\ (\A c \in PriceChanges : c < 0) => Returned.value = 0

\* A history with gains and losses, longer than period + 1, gave a value
\* strictly inside the range.
C18_Witness ==
    /\ result # {}
    /\ Len(args.closingPrices) > args.period + 1
    /\ \E c \in PriceChanges : c > 0
    /\ \E c \in PriceChanges : c < 0
    /\ Returned.value \in 1..99

C18_WitnessIncreasing ==
    /\ result # {}
    /\ Len(args.closingPrices) > args.period + 1
    /\ \A c \in PriceChanges : c > 0
    /\ Returned.value = 100

C18_WitnessDecreasing ==
    /\ result # {}
    /\ Len(args.closingPrices) > args.period + 1
    /\ \A c \in PriceChanges : c < 0
    /\ Returned.value = 0

(***************************************************************************)
(* The engine's rates against the documented ones (checked under EvalSpec) *)
(***************************************************************************)
\* C19: the win rate the engine applies to a strategy, and exports for the
\* strategy summary table, is the one the README's strategy table states:
\* Brazil Drought 0.82, Real Frost Event 0.76, La Nina Double Hit 0.68,
\* Pre-Frost Volatility 0.62, Hurricane False Alarm 0.58.
C19_WinRatesMatchReadme ==
    /\ STRATEGY_WIN_RATES = ReadmeWinRates
    /\ Evaluated =>
          LET base == Returned.insight.baseWinRate
          IN  /\ Returned.isBrazilDrought => base = ReadmeWinRates.brazilDrought
              /\ Returned.isHurricaneFalseAlarm =>
                     base = ReadmeWinRates.hurricaneFalseAlarm
              /\ (NoOverride /\ args.currentTemp < critical_temp_f
                    /\ args.hoursBelow28 >= min_duration_hours) =>
                     base = ReadmeWinRates.realFrost
              /\ (NoOverride /\ args.currentTemp < critical_temp_f
                    /\ args.hoursBelow28 < min_duration_hours) =>
                     base = ReadmeWinRates.volatility

\* The one documented rate the engine does apply: Real Frost Event, 0.76.
C19_RealFrostRateAsDocumented ==
    /\ STRATEGY_WIN_RATES.realFrost = ReadmeWinRates.realFrost
    /\ (Evaluated /\ NoOverride /\ args.currentTemp < critical_temp_f
          /\ args.hoursBelow28 >= min_duration_hours) =>
           Returned.insight.baseWinRate = ReadmeWinRates.realFrost

(***************************************************************************)
(* Ordering of a sync and the signal (checked under Spec)                  *)
(***************************************************************************)
\* C20: every signal computation that a completing sync causes uses the synced
\* temperature together with the RSI the sync leaves in place (the synced one
\* when the RSI fetch succeeded), never the new temperature with the pre-sync
\* RSI; and when the sync changed a parameter, the signal is computed from the
\* parameters it left.
C20_SyncAppliedWhole ==
    [][AnySyncComplete =>
          /\ \A e \in signalRuns' : /\ e.currentTemp = currentTemp'
                                    /\ e.rsiValue = rsiValue'
          /\ (CurrentInput' # CurrentInput) => CurrentInput' \in signalRuns']_vars

\* A sync in which both fetches succeeded has just replaced the temperature and
\* the RSI, and the signal was computed once, from both.
C20_Witness ==
    /\ phase = "running"
    /\ lastSyncTimestamp = now
    /\ ~rsiSyncError
    /\ currentTemp \in FetchedTemps
    /\ currentTemp # DEFAULT_TEMP
    /\ rsiValue \in FetchedRsi
    /\ rsiValue # DEFAULT_RSI
    /\ signalRuns = {CurrentInput}
    /\ \A m \in marketStore : m.currentTemp = currentTemp

(***************************************************************************)
(* The two fetches of a sync (checked under FetchFairSpec)                 *)
(***************************************************************************)
\* C21: within one sync the temperature of a completed weather fetch is applied
\* to the parameter set without waiting for the RSI fetch: once the weather
\* fetch has answered, the sync goes on to apply that temperature, also when
\* the RSI fetch is slow or never returns.
C21_TemperatureNotHeldBack ==
    (syncInFlight # {} /\ fetched.weather # <<>>)
        ~> (/\ syncInFlight = {}
            /\ fetched.weather # <<>>
            /\ currentTemp = fetchLiveMarketData(fetched.weather[1]).currentTemp)

(***************************************************************************)
(* The persisted market snapshot (checked under DashboardSpec)             *)
(***************************************************************************)
\* C22: the market-data snapshot that a sync persists holds the
\* currentInventory, marketContext and hoursBelow28 that are current when the
\* sync completes, so that an edit made while the fetch was in flight is in the
\* snapshot a restart restores.
C22_SnapshotHoldsCurrentValues ==
    [][AnySyncComplete =>
          /\ marketStore' # {}
          /\ \A m \in marketStore' : /\ m.currentInventory = currentInventory
                                     /\ m.marketContext = marketContext
                                     /\ m.hoursBelow28 = hoursBelow28]_vars

(***************************************************************************)
(* The trade blueprint (checked under BlueprintSpec)                       *)
(***************************************************************************)
\* The evaluator's output for the current parameter set.
CurrentSignal == signal(CurrentInput, calendarMonth)

\* C23: whenever a trade blueprint is generated, its primary signal and win
\* rate are those of the evaluator's output for the current parameter set: the
\* evaluator's recommendation is no override and its base win rate is the
\* blueprint's win rate.
C23_BlueprintFollowsSignal ==
    [][handleGenerateBlueprint =>
          \A b \in blueprintData' :
              /\ CurrentSignal.recommendedAction \in BaselineActions
              /\ CurrentSignal.insight.baseWinRate = b.winRate]_vars

\* What the blueprint does take from the current state.
C23_BlueprintCopiesParameters ==
    [][handleGenerateBlueprint =>
          /\ blueprintData' # {}
          /\ \A b \in blueprintData' :
                 /\ b.currentTemp = currentTemp
                 /\ b.inventoryLevel = currentInventory
                 /\ b.isLaNinaActive = marketContext.isLaNina
                 /\ b.winRate = real_frost]_vars

(***************************************************************************)
(* More properties of the frost exposure tracker (checked under Spec)      *)
(***************************************************************************)
\* C24: accumulatedSeconds never increases in a step in which the current
\* temperature is above 28: time in the band 28 < T <= 32 with isTracking
\* still true is not counted, neither while the application runs nor when it
\* is reconstructed on a restart.
C24_NoCountingAbove28 ==
    [][(currentTemp > CRITICAL_TEMP_THRESHOLD
          /\ currentTemp' > CRITICAL_TEMP_THRESHOLD) =>
              frostData'.accumulatedSeconds <= frostData.accumulatedSeconds]_vars

\* The running application alone does keep to it: only a restart counts band
\* time.
C24_NoCountingAbove28WhileRunning ==
    [][(currentTemp > CRITICAL_TEMP_THRESHOLD
          /\ currentTemp' > CRITICAL_TEMP_THRESHOLD
          /\ phase' = "running") =>
              frostData'.accumulatedSeconds <= frostData.accumulatedSeconds]_vars

\* C25: in every reachable state of the frost tracker, in memory and in the
\* persistence store, isTracking = false implies accumulatedSeconds = 0.
C25_IdleMeansZero ==
    /\ ~frostData.isTracking => frostData.accumulatedSeconds = 0
    /\ \A d \in frostStore : ~d.isTracking => d.accumulatedSeconds = 0

\* Idle after an episode that had counted at least an hour and was ended by a
\* temperature above 32.
C25_Witness ==
    /\ phase = "running"
    /\ ~frostData.isTracking
    /\ frostStore = {frostData}
    /\ currentTemp > RESET_TEMP_THRESHOLD
    /\ hoursBelow28 > 0
    /\ frostData.accumulatedSeconds = 0

\* C26: whenever the frost tracker is Idle, the hoursBelow28 parameter given to
\* the evaluator is 0, after an automatic reset as after a manual one.
C26_IdleMeansNoHours ==
    (phase = "running" /\ ~frostData.isTracking) => hoursBelow28 = 0

\* The critical-exposure alert fires in this step.
AlertFires == episodeAlerts' > episodeAlerts

\* C27: whenever the critical-exposure alert fires, the evaluator applied to
\* the parameter set of that moment, no override condition holding, classifies
\* the frost regime as real frost (currentTemp below the critical temperature
\* and hoursBelow28 >= 4), also at exactly 28.
C27_AlertMeansRealFrost ==
    [][(AlertFires /\ CurrentSignal'.recommendedAction \in BaselineActions) =>
          /\ IsBelowCriticalTemp(currentTemp')
          /\ HasSufficientDuration(hoursBelow28')
          /\ CurrentSignal'.insight.baseWinRate = real_frost]_vars

\* Below 28 the tracker and the evaluator do agree.
C27_AgreeBelow28 ==
    [][(AlertFires /\ CurrentSignal'.recommendedAction \in BaselineActions
          /\ currentTemp' < CRITICAL_TEMP_THRESHOLD) =>
          /\ IsBelowCriticalTemp(currentTemp')
          /\ HasSufficientDuration(hoursBelow28')
          /\ CurrentSignal'.insight.baseWinRate = real_frost]_vars

(***************************************************************************)
(* The month of the market context (checked under CalendarSpec)            *)
(***************************************************************************)
\* C28: the currentMonth in the market context given to the evaluator always
\* equals the current calendar month, also after a restart that restores a
\* context persisted in an earlier month and after the month changes while the
\* application runs.
C28_ContextMonthIsCurrent ==
    \A e \in signalRuns \cup {CurrentInput} :
        e.marketContext.currentMonth = calendarMonth

\* A restart in a later month has restored the context of the month of the sync.
C28_RestoredMonth ==
    /\ phase = "render"
    /\ marketStore # {}
    /\ marketContext.currentMonth # calendarMonth
    /\ \A m \in marketStore : marketContext = m.marketContext

(***************************************************************************)
(* Win probability against frost duration (checked under EvalSpec)         *)
(***************************************************************************)
\* C29: with all other inputs fixed and no override firing, the winProbability
\* returned by calculateMarketSignalBrowser is non-decreasing in hoursBelow28.
C29_MonotoneInHours ==
    (Evaluated /\ NoOverride) =>
        \A h \in EvalHours :
            h >= args.hoursBelow28 =>
                calculateMarketSignalBrowser(args.currentTemp, h,
                    args.currentInventory, args.marketContext, args.rsiValue,
                    calendarMonth).winProbability >= Returned.winProbability

\* Above the critical temperature the duration does not enter the result.
C29_HoursIrrelevantWhenWarm ==
    (Evaluated /\ NoOverride /\ args.currentTemp >= critical_temp_f) =>
        \A h \in EvalHours :
            calculateMarketSignalBrowser(args.currentTemp, h,
                args.currentInventory, args.marketContext, args.rsiValue,
                calendarMonth).winProbability = Returned.winProbability

(***************************************************************************)
(* The price subscription after unsubscribe (checked under PriceSpec)      *)
(***************************************************************************)
Unsubscribed == priceSub.subscribed /\ ~priceSub.isActive

\* C30: after the unsubscribe function returned by subscribeToPriceUpdates has
\* been called, the subscriber's callback is never invoked again, also when a
\* price fetch started by the subscription is still in flight at the moment of
\* the call.
C30_NoCallbackAfterUnsubscribe ==
    [][Unsubscribed => priceSub'.calls = priceSub.calls]_vars

\* After unsubscribe no new fetch starts and the interval is gone.
C30_NoFetchAfterUnsubscribe ==
    [][Unsubscribed =>
          /\ priceSub'.inFlight <= priceSub.inFlight
          /\ ~priceSub'.intervalSet]_vars

====
